---- MODULE Spec2Model ----
(***************************************************************************)
(* Webhook receiver: signed ingestion (POST /webhook), idempotent insert   *)
(* into the SQLite table "messages", and the read endpoints.               *)
(*                                                                         *)
(* Text is a sequence of characters, each character a one-element token.   *)
(* JSON values and SQL values are tagged records, so that null, a string   *)
(* and an absent key are three different things.                           *)
(***************************************************************************)
EXTENDS Integers, Sequences, FiniteSets, TLC

VARIABLES
    WEBHOOK_SECRET, \* app/config.py: the configured secret, "" when unset
    started,        \* the lifespan startup has run
    tableExists,    \* the messages table has been created
    table,          \* committed rows of messages, in rowid order
    lock,           \* the connection holding SQLite's write lock
    pc,             \* per worker: position in webhook / insert_message
    req,            \* per worker: the raw body of the request being served
    pending,        \* per worker: the row written by INSERT, not yet committed
    last,           \* the response produced by the latest step, if any
    rd,             \* the get_stats / get_messages call in progress, query by query
    counters,       \* webhook_requests_total: the value per label
    tally           \* the responses given so far, per kind

vars == <<WEBHOOK_SECRET, started, tableExists, table, lock, pc, req, pending, last,
          rd, counters, tally>>

-----------------------------------------------------------------------------
(* Bounds *)

\* The table holds at most MaxRows rows.
MaxRows == 2
\* datetime.utcnow() is read as one of the instants 0 .. NumInstants-1.
NumInstants == 2

Workers == {"w1", "w2"}
NoWorker == "none"
Instants == 0 .. (NumInstants - 1)

-----------------------------------------------------------------------------
(* Values *)

JStr(s) == [kind |-> "str", s |-> s]
JNull == [kind |-> "null"]
SqlText(s) == [kind |-> "text", s |-> s]
SqlNull == [kind |-> "NULL"]

Digits == {"0", "1", "2", "3", "4", "5", "6", "7", "8", "9"}
\* A character outside ASCII (a header byte >= 0x80, decoded as latin-1).
NonAsciiChars == {"U+00E9"}

IsAscii(s) == \A i \in 1..Len(s) : s[i] \notin NonAsciiChars

\* WebhookMessage.text: max_length
MaxTextLen == 4096

\* The pattern ^\+\d+$ of WebhookMessage.from_ and WebhookMessage.to.
MatchesMsisdn(s) ==
    /\ Len(s) >= 2
    /\ s[1] = "+"
    /\ \A i \in 2..Len(s) : s[i] \in Digits

\* A JSON object as Python dict: a function from its keys to JSON values.
JObject(f) == [kind |-> "object", fields |-> f]
JArray == [kind |-> "array"]

IsDict(doc) == doc.kind = "object"
HasKey(doc, k) == k \in DOMAIN doc.fields
\* dict.get(k): None for an absent key
DictGet(doc, k) == IF HasKey(doc, k) THEN doc.fields[k] ELSE JNull

\* class WebhookMessage: the declared schema of a message.
WebhookMessage(doc) ==
    /\ IsDict(doc)
    /\ HasKey(doc, "message_id")
    /\ doc.fields["message_id"].kind = "str"
    /\ Len(doc.fields["message_id"].s) >= 1
    /\ HasKey(doc, "from")
    /\ doc.fields["from"].kind = "str"
    /\ MatchesMsisdn(doc.fields["from"].s)
    /\ HasKey(doc, "to")
    /\ doc.fields["to"].kind = "str"
    /\ MatchesMsisdn(doc.fields["to"].s)
    /\ HasKey(doc, "ts")
    /\ doc.fields["ts"].kind = "str"
    /\ \/ ~HasKey(doc, "text")
       \/ doc.fields["text"].kind = "null"
       \/ /\ doc.fields["text"].kind = "str"
          /\ Len(doc.fields["text"].s) <= MaxTextLen

-----------------------------------------------------------------------------
(* Request bodies: the raw text sent, and the document json.loads gives *)

TestSecret == "testsecret"

M1 == <<"m", "1">>
M2 == <<"m", "2">>
Plus1 == <<"+", "1">>
Plus2 == <<"+", "2">>
Plus9 == <<"+", "9">>
NotMsisdn == <<"a", "b", "c">>
Ts10 == <<"1", "0">>
Ts09 == <<"0", "9">>
Hi == <<"h", "i">>

BodyV1 == "{\"message_id\":\"m1\",\"from\":\"+1\",\"to\":\"+9\",\"ts\":\"10\",\"text\":\"hi\"}"
BodyV1Spaced == "{ \"message_id\":\"m1\",\"from\":\"+1\",\"to\":\"+9\",\"ts\":\"10\",\"text\":\"hi\"}"
BodyV1Other == "{\"message_id\":\"m1\",\"from\":\"+2\",\"to\":\"+9\",\"ts\":\"09\"}"
BodyBadFrom == "{\"message_id\":\"m2\",\"from\":\"abc\",\"to\":\"+9\",\"ts\":\"10\",\"text\":null}"
BodyNullFrom == "{\"message_id\":\"m2\",\"from\":null,\"to\":\"+9\",\"ts\":\"10\"}"
BodyNullId == "{\"message_id\":null,\"from\":\"+1\",\"to\":\"+9\",\"ts\":\"10\"}"
BodyNoTs == "{\"message_id\":\"m1\",\"from\":\"+1\",\"to\":\"+9\"}"
BodyEmptyTs == "{\"message_id\":\"m2\",\"from\":\"+2\",\"to\":\"+9\",\"ts\":\"\"}"
BodyArray == "[]"
BodyMalformed == "{\"message_id\":"

Bodies ==
    {BodyV1, BodyV1Spaced, BodyV1Other, BodyBadFrom, BodyNullFrom, BodyNullId,
     BodyNoTs, BodyArray, BodyMalformed}

DocV1 ==
    JObject([message_id |-> JStr(M1), from |-> JStr(Plus1), to |-> JStr(Plus9),
             ts |-> JStr(Ts10), text |-> JStr(Hi)])
DocV1Other ==
    JObject([message_id |-> JStr(M1), from |-> JStr(Plus2), to |-> JStr(Plus9),
             ts |-> JStr(Ts09)])
DocBadFrom ==
    JObject([message_id |-> JStr(M2), from |-> JStr(NotMsisdn), to |-> JStr(Plus9),
             ts |-> JStr(Ts10), text |-> JNull])
DocNullFrom ==
    JObject([message_id |-> JStr(M2), from |-> JNull, to |-> JStr(Plus9),
             ts |-> JStr(Ts10)])
DocNullId ==
    JObject([message_id |-> JNull, from |-> JStr(Plus1), to |-> JStr(Plus9),
             ts |-> JStr(Ts10)])
DocNoTs ==
    JObject([message_id |-> JStr(M1), from |-> JStr(Plus1), to |-> JStr(Plus9)])

DocEmptyTs ==
    JObject([message_id |-> JStr(M2), from |-> JStr(Plus2), to |-> JStr(Plus9),
             ts |-> JStr(<<>>)])

NoDoc == [kind |-> "none"]

\* request.json(): json.loads of the raw body; ok = FALSE is JSONDecodeError.
JsonLoads(body) ==
    CASE body = BodyV1 -> [ok |-> TRUE, doc |-> DocV1]
      [] body = BodyV1Spaced -> [ok |-> TRUE, doc |-> DocV1]
      [] body = BodyV1Other -> [ok |-> TRUE, doc |-> DocV1Other]
      [] body = BodyBadFrom -> [ok |-> TRUE, doc |-> DocBadFrom]
      [] body = BodyNullFrom -> [ok |-> TRUE, doc |-> DocNullFrom]
      [] body = BodyNullId -> [ok |-> TRUE, doc |-> DocNullId]
      [] body = BodyNoTs -> [ok |-> TRUE, doc |-> DocNoTs]
      [] body = BodyEmptyTs -> [ok |-> TRUE, doc |-> DocEmptyTs]
      [] body = BodyArray -> [ok |-> TRUE, doc |-> JArray]
      [] OTHER -> [ok |-> FALSE, doc |-> NoDoc]

-----------------------------------------------------------------------------
(* Signature verification *)

NoHeader == [kind |-> "absent"]
Header(s) == [kind |-> "str", s |-> s]

\* hmac.new(secret, body, sha256).hexdigest(): an ASCII string determined by
\* (secret, body), different for different (secret, body).
HexDigest(secret, body) == <<"hmac-sha256", secret, body>>

\* hmac.compare_digest on two str: TypeError unless both are ASCII.
CompareDigest(a, b) ==
    IF IsAscii(a) /\ IsAscii(b)
    THEN IF a = b THEN "true" ELSE "false"
    ELSE "raise"

verify_signature(secret, body, signature) ==
    CompareDigest(HexDigest(secret, body), signature)

\* main.py line 104: not signature or not verify_signature(...)
\* "true": accepted, "false": rejected, "raise": TypeError leaves the handler.
SignatureCheck(secret, body, header) ==
    IF header.kind = "absent" \/ header.s = <<>>
    THEN "false"
    ELSE verify_signature(secret, body, header.s)

\* main.py lines 98-106: "unset" is the 503 of a missing secret, which is
\* answered before the signature is looked at.
WebhookAuth(secret, body, header) ==
    IF secret = "" THEN "unset" ELSE SignatureCheck(secret, body, header)

-----------------------------------------------------------------------------
(* The messages table (SQLite) *)

\* Binding a Python value to a TEXT column: None is NULL, a str is TEXT.
Bind(v) == IF v.kind = "str" THEN SqlText(v.s) ELSE SqlNull

\* datetime.utcnow().isoformat() + "Z"
IsoFormatZ(t) == <<ToString(t), "Z">>

NoRow == [message_id |-> SqlNull, from_msisdn |-> SqlNull, to_msisdn |-> SqlNull,
          ts |-> SqlNull, text |-> SqlNull, created_at |-> SqlNull]

\* The parameter tuple of the INSERT in insert_message.
InsertParams(msg, t) ==
    [message_id |-> Bind(msg.fields["message_id"]),
     from_msisdn |-> Bind(msg.fields["from"]),
     to_msisdn |-> Bind(msg.fields["to"]),
     ts |-> Bind(msg.fields["ts"]),
     text |-> Bind(DictGet(msg, "text")),
     created_at |-> SqlText(IsoFormatZ(t))]

\* Evaluating the parameter tuple raises: TypeError when msg is not a dict,
\* KeyError when one of the subscripted keys is absent.
InsertParamsRaise(msg) ==
    \/ ~IsDict(msg)
    \/ \E k \in {"message_id", "from", "to", "ts"} : ~HasKey(msg, k)

\* NOT NULL on from_msisdn, to_msisdn, ts, created_at.
NotNullViolation(row) ==
    \/ row.from_msisdn = SqlNull
    \/ row.to_msisdn = SqlNull
    \/ row.ts = SqlNull
    \/ row.created_at = SqlNull

\* message_id TEXT PRIMARY KEY of a rowid table: unique among non-NULL values
\* (SQLite lets NULL into such a key, and NULLs never collide).
UniqueViolation_None(rows, row) == FALSE

UniqueViolation(rows, row) ==
    /\ row.message_id # SqlNull
    /\ \E i \in 1..Len(rows) : rows[i].message_id = row.message_id

\* sqlite3.IntegrityError from the INSERT.
IntegrityError(rows, row) == NotNullViolation(row) \/ UniqueViolation(rows, row)

CreateTableIfNotExists_Recreate(exists, rows) == <<>>

\* CREATE TABLE IF NOT EXISTS messages: the rows after init_db.
CreateTableIfNotExists(exists, rows) == IF exists THEN rows ELSE <<>>

InitDbResult_PlainCreate(exists) == IF exists THEN "error" ELSE "ok"

\* init_db returns or raises: with IF NOT EXISTS the CREATE TABLE does not
\* raise on a table that exists.
InitDbResult(exists) == "ok"

\* conn.commit() of the INSERT: the rows after the commit.
CommitInsert(rows, row) == Append(rows, row)

WriteLockFree_NoLock(w) == TRUE

\* SQLite's write lock: one connection at a time runs a write statement; the
\* others wait in the busy handler.
WriteLockFree(w) == lock = NoWorker

CountId(rows, id) == Cardinality({i \in 1..Len(rows) : rows[i].message_id = id})

-----------------------------------------------------------------------------
(* Queries: models.get_messages and models.get_stats *)

\* The characters in use, in code point order (SQLite's BINARY collation).
Ascii ==
    <<"%", "+", "0", "1", "2", "3", "4", "5", "6", "7", "8", "9", ":",
      "H", "I", "Z", "_", "a", "b", "c", "h", "i", "m", "t">>

Ord(c) == CHOOSE i \in 1..Len(Ascii) : Ascii[i] = c

\* a < b, comparing two strings character by character.
LexLess(a, b) ==
    \E k \in 1..(Len(b)) :
        /\ \A i \in 1..(k - 1) : i <= Len(a) /\ a[i] = b[i]
        /\ \/ k = Len(a) + 1
           \/ k <= Len(a) /\ Ord(a[k]) < Ord(b[k])

\* x < y for two SQL values: NULL sorts before every TEXT.
SqlLess(x, y) ==
    CASE x = SqlNull -> y # SqlNull
      [] y = SqlNull -> FALSE
      [] OTHER -> LexLess(x.s, y.s)

\* SQLite's LIKE folds the case of ASCII letters.
Lower(c) == CASE c = "H" -> "h" [] c = "I" -> "i" [] c = "Z" -> "z" [] OTHER -> c

\* text LIKE pattern: % matches any run of characters, _ any one character.
RECURSIVE Like(_, _)
Like(pat, text) ==
    IF pat = <<>> THEN text = <<>>
    ELSE IF Head(pat) = "%"
         THEN \E k \in 0..Len(text) : Like(Tail(pat), SubSeq(text, k + 1, Len(text)))
         ELSE /\ text # <<>>
              /\ Head(pat) = "_" \/ Lower(Head(pat)) = Lower(Head(text))
              /\ Like(Tail(pat), Tail(text))

NoParam == [kind |-> "absent"]
Param(s) == [kind |-> "str", s |-> s]
\* Python truthiness of an optional str parameter: not None and not "".
Truthy(p) == p.kind = "str" /\ p.s # <<>>

\* The WHERE clause get_messages builds from its arguments.
Matches(row, from_msisdn, since, q) ==
    /\ Truthy(from_msisdn) => row.from_msisdn = SqlText(from_msisdn.s)
    /\ Truthy(since) => /\ row.ts # SqlNull
                        /\ ~LexLess(row.ts.s, since.s)
    /\ Truthy(q) => /\ row.text # SqlNull
                    /\ Like(<<"%">> \o q.s \o <<"%">>, row.text.s)

RECURSIVE SelectSeq2(_, _, _, _)
SelectSeq2(rows, from_msisdn, since, q) ==
    IF rows = <<>> THEN <<>>
    ELSE (IF Matches(Head(rows), from_msisdn, since, q) THEN <<Head(rows)>> ELSE <<>>)
            \o SelectSeq2(Tail(rows), from_msisdn, since, q)

\* ORDER BY ts ASC, message_id ASC: r may come before s.
OrderLeq(r, s) ==
    \/ SqlLess(r.ts, s.ts)
    \/ r.ts = s.ts /\ ~SqlLess(s.message_id, r.message_id)

\* The orders the ORDER BY allows (rows equal in both keys come in any order).
SortedOrders(rows) ==
    {p \in Permutations(1..Len(rows)) :
        \A i, j \in 1..Len(rows) : i < j => OrderLeq(rows[p[i]], rows[p[j]])}

Min(a, b) == IF a < b THEN a ELSE b

\* The item get_messages returns for a row (created_at is not selected).
Item(row) ==
    [message_id |-> row.message_id, from |-> row.from_msisdn, to |-> row.to_msisdn,
     ts |-> row.ts, text |-> row.text]

\* get_messages, the count query: SELECT COUNT(*) ... WHERE.
CountQuery(rows, from_msisdn, since, q) == Len(SelectSeq2(rows, from_msisdn, since, q))

PageQuery_Unsorted(rows, p, limit, offset, from_msisdn, since, q) ==
    LET matching == SelectSeq2(rows, from_msisdn, since, q)
        n == Len(matching)
    IN  [i \in 1..(IF offset >= n THEN 0 ELSE Min(limit, n - offset)) |->
            Item(matching[offset + i])]

\* get_messages, the page query: SELECT ... WHERE ... ORDER BY ... LIMIT ? OFFSET ?
\* with order p of the matching rows, and the items built from its rows.
PageQuery(rows, p, limit, offset, from_msisdn, since, q) ==
    LET matching == SelectSeq2(rows, from_msisdn, since, q)
        n == Len(matching)
    IN  [i \in 1..(IF offset >= n THEN 0 ELSE Min(limit, n - offset)) |->
            Item(matching[p[offset + i]])]

\* The dict get_messages returns.
MessagesResult(data, total, limit, offset) ==
    [kind |-> "messages", data |-> data, total |-> total, limit |-> limit,
     offset |-> offset]

\* get_messages when both queries read the same rows.
get_messages(rows, p, limit, offset, from_msisdn, since, q) ==
    MessagesResult(PageQuery(rows, p, limit, offset, from_msisdn, since, q),
                   CountQuery(rows, from_msisdn, since, q), limit, offset)

Senders(rows) == {rows[i].from_msisdn : i \in 1..Len(rows)} \ {SqlNull}

\* MIN(ts) / MAX(ts): NULL on an empty table.
MinTs(rows) ==
    IF rows = <<>> THEN SqlNull
    ELSE CHOOSE v \in {rows[i].ts : i \in 1..Len(rows)} :
            \A i \in 1..Len(rows) : ~SqlLess(rows[i].ts, v)
MaxTs(rows) ==
    IF rows = <<>> THEN SqlNull
    ELSE CHOOSE v \in {rows[i].ts : i \in 1..Len(rows)} :
            \A i \in 1..Len(rows) : ~SqlLess(v, rows[i].ts)

\* x if x else None, for a TEXT or NULL value.
OrNone(v) == IF v # SqlNull /\ v.s # <<>> THEN v ELSE SqlNull

\* The five queries of get_stats.
\* SELECT COUNT(*) FROM messages
TotalQuery(rows) == Len(rows)
\* SELECT from_msisdn, COUNT(*) ... GROUP BY from_msisdn; len(by_sender)
BySenderQuery(rows) == Cardinality({rows[i].from_msisdn : i \in 1..Len(rows)})
\* SELECT COUNT(DISTINCT from_msisdn)
UniqueSendersQuery(rows) == Cardinality(Senders(rows))
\* SELECT MIN(ts), and x if x else None
FirstTsQuery(rows) == OrNone(MinTs(rows))
\* SELECT MAX(ts), and x if x else None
LastTsQuery(rows) == OrNone(MaxTs(rows))

\* The dict get_stats returns; total / unique_senders is the fraction num/den,
\* and 0 is 0/1.
StatsResult(total, senders_count, unique_senders, first_ts, last_ts) ==
    [kind |-> "stats",
     total_messages |-> total,
     senders_count |-> senders_count,
     messages_per_sender |->
        IF unique_senders > 0 THEN [num |-> total, den |-> unique_senders]
        ELSE [num |-> 0, den |-> 1],
     first_message_ts |-> first_ts,
     last_message_ts |-> last_ts]

\* get_stats when the five queries read the same rows.
get_stats(rows) ==
    StatsResult(TotalQuery(rows), BySenderQuery(rows), UniqueSendersQuery(rows),
                FirstTsQuery(rows), LastTsQuery(rows))

-----------------------------------------------------------------------------
(* Responses *)

NoBody == ""
NoOut == [kind |-> "none"]
NoArgs == <<>>
NoEvent == [op |-> "none", w |-> NoWorker, body |-> NoBody, sig |-> NoHeader,
            auth |-> "none", status |-> 0, result |-> "none", out |-> NoOut,
            args |-> NoArgs, exc |-> "none"]

WebhookEvent(w, body, sig, auth, status, result) ==
    [NoEvent EXCEPT !.op = "webhook", !.w = w, !.body = body, !.sig = sig,
                    !.auth = auth, !.status = status, !.result = result]

ResultStatus_Conflict(result) == IF result = "duplicate" THEN 409 ELSE 200

\* main.py lines 112-127: both results of insert_message are answered alike.
ResultStatus(result) == 200

\* The exceptions that are a ValueError.
ValueErrors == {"JSONDecodeError"}
\* A failure of the storage: sqlite3.OperationalError (disk I/O error, database
\* is locked, unable to open database file).
StorageError == "sqlite3.OperationalError"

ExceptStatus_BadRequest(exc) == 400

\* main.py lines 128-133: except ValueError is 400, except Exception is 500.
ExceptStatus(exc) == IF exc \in ValueErrors THEN 400 ELSE 500

ValidSignature(body) == Header(HexDigest(TestSecret, body))

-----------------------------------------------------------------------------
(* Query parameters of GET /messages *)

QInt(n) == [kind |-> "int", n |-> n]

\* limit: int = Query(50, ge=1, le=100); offset: int = Query(0, ge=0)
LimitDefault == 50
LimitMin == 1
LimitMax == 100
OffsetDefault == 0
OffsetMin == 0

LimitOk_Any(limit) == TRUE

\* The validation of limit: absent, or within ge and le.
LimitOk(limit) ==
    IF limit = NoParam THEN TRUE ELSE limit.n >= LimitMin /\ limit.n <= LimitMax
\* The validation of offset: absent, or within ge.
OffsetOk(offset) == IF offset = NoParam THEN TRUE ELSE offset.n >= OffsetMin

\* The values list_messages passes on to get_messages.
EffectiveLimit(limit) == IF limit = NoParam THEN LimitDefault ELSE limit.n
EffectiveOffset(offset) == IF offset = NoParam THEN OffsetDefault ELSE offset.n

-----------------------------------------------------------------------------
(* Metrics: webhook_requests_total, a counter per label *)

Labels == {"created", "duplicate", "invalid_signature"}
ZeroCounters == [l \in Labels |-> 0]

\* webhook_requests_total.labels(label).inc()
Inc(c, label) == [c EXCEPT ![label] = c[label] + 1]

\* The responses given so far: the 401s, and the 200s for a message_id that
\* was already stored.
ZeroTally == [unauthorized |-> 0, ok_stored |-> 0]

-----------------------------------------------------------------------------
(* The read call in progress *)

NoRead == [op |-> "none", step |-> 0, args |-> NoArgs, total |-> 0,
           senders_count |-> 0, unique_senders |-> 0, first_ts |-> SqlNull]

-----------------------------------------------------------------------------
(* Actions *)

Init ==
    /\ WEBHOOK_SECRET \in {"", TestSecret}
    /\ started = FALSE
    /\ tableExists = FALSE
    /\ table = <<>>
    /\ lock = NoWorker
    /\ pc = [w \in Workers |-> "idle"]
    /\ req = [w \in Workers |-> NoBody]
    /\ pending = [w \in Workers |-> NoRow]
    /\ last = NoEvent
    /\ rd = NoRead
    /\ counters = ZeroCounters
    /\ tally = ZeroTally

\* models.init_db
init_db ==
    /\ table' = CreateTableIfNotExists(tableExists, table)
    /\ tableExists' = TRUE

\* main.lifespan: startup runs init_db, then requests are served.
Lifespan ==
    /\ ~started
    /\ init_db
    /\ started' = TRUE
    /\ UNCHANGED <<WEBHOOK_SECRET, lock, pc, req, pending, last, rd, counters, tally>>

\* init_db run again on a store that is in use (another process start).
InitDb ==
    /\ started
    /\ last = NoEvent
    /\ init_db
    /\ last' = [NoEvent EXCEPT !.op = "init_db", !.result = InitDbResult(tableExists)]
    /\ UNCHANGED <<WEBHOOK_SECRET, started, lock, pc, req, pending, rd, counters, tally>>

Respond(w, body, sig, auth, status, result) ==
    /\ last' = WebhookEvent(w, body, sig, auth, status, result)
    /\ pc' = [pc EXCEPT ![w] = "idle"]
    /\ req' = [req EXCEPT ![w] = NoBody]

\* An exception inside the try of main.webhook (lines 108-133).
RespondRaise(w, body, sig, exc) ==
    /\ last' = [WebhookEvent(w, body, sig, "true", ExceptStatus(exc), "none")
                   EXCEPT !.exc = exc]
    /\ pc' = [pc EXCEPT ![w] = "idle"]
    /\ req' = [req EXCEPT ![w] = NoBody]

\* main.webhook lines 94-110 and insert_message up to cursor.execute.
WebhookReceive(w, body, sig) ==
    /\ started
    /\ last = NoEvent
    /\ pc[w] = "idle"
    /\ LET auth == WebhookAuth(WEBHOOK_SECRET, body, sig)
            parsed == JsonLoads(body)
       IN  CASE auth = "unset" -> Respond(w, body, sig, auth, 503, "none")
             [] auth = "false" -> Respond(w, body, sig, auth, 401, "none")
             [] auth = "raise" -> Respond(w, body, sig, auth, 500, "none")
             [] auth = "true" /\ ~parsed.ok -> RespondRaise(w, body, sig, "JSONDecodeError")
             [] auth = "true" /\ parsed.ok /\ InsertParamsRaise(parsed.doc) ->
                   RespondRaise(w, body, sig,
                                IF IsDict(parsed.doc) THEN "KeyError" ELSE "TypeError")
             [] OTHER ->
                   /\ pc' = [pc EXCEPT ![w] = "insert"]
                   /\ req' = [req EXCEPT ![w] = body]
                   /\ last' = NoEvent
    /\ UNCHANGED <<WEBHOOK_SECRET, started, tableExists, table, lock, pending, rd>>

\* insert_message: cursor.execute of the INSERT.
InsertExecute(w) ==
    /\ last = NoEvent
    /\ pc[w] = "insert"
    /\ WriteLockFree(w)
    /\ \E t \in Instants :
         LET row == InsertParams(JsonLoads(req[w]).doc, t)
         IN  IF IntegrityError(table, row)
             THEN /\ Respond(w, req[w], ValidSignature(req[w]), "true",
                             ResultStatus("duplicate"), "duplicate")
                  /\ UNCHANGED <<lock, pending>>
             ELSE /\ Len(table) < MaxRows
                  /\ pending' = [pending EXCEPT ![w] = row]
                  /\ lock' = w
                  /\ pc' = [pc EXCEPT ![w] = "commit"]
                  /\ UNCHANGED <<req, last>>
    /\ UNCHANGED <<WEBHOOK_SECRET, started, tableExists, table, rd>>

\* insert_message: conn.commit(), return "created"; main.webhook lines 112-127.
InsertCommit(w) ==
    /\ last = NoEvent
    /\ pc[w] = "commit"
    /\ table' = CommitInsert(table, pending[w])
    /\ lock' = IF lock = w THEN NoWorker ELSE lock
    /\ pending' = [pending EXCEPT ![w] = NoRow]
    /\ Respond(w, req[w], ValidSignature(req[w]), "true",
               ResultStatus("created"), "created")
    /\ UNCHANGED <<WEBHOOK_SECRET, started, tableExists, rd>>

\* The response leaves the process.
SendResponse ==
    /\ last # NoEvent
    /\ last' = NoEvent
    /\ UNCHANGED <<WEBHOOK_SECRET, started, tableExists, table, lock, pc, req,
                   pending, rd, counters, tally>>

\* GET /messages (main.list_messages); the queries of get_messages read one
\* state of the table. A parameter outside its range is answered 422 by the
\* validation of the Query declarations, before list_messages runs.
ListMessages(limit, offset, from_param, since, q) ==
    /\ started
    /\ last = NoEvent
    /\ rd = NoRead
    /\ LET args == <<limit, offset, from_param, since, q>>
       IN  IF ~(LimitOk(limit) /\ OffsetOk(offset))
           THEN last' = [NoEvent EXCEPT !.op = "messages", !.status = 422,
                                        !.args = args]
           ELSE \E p \in SortedOrders(SelectSeq2(table, from_param, since, q)) :
                   last' = [NoEvent EXCEPT
                               !.op = "messages", !.status = 200, !.args = args,
                               !.out = get_messages(table, p, EffectiveLimit(limit),
                                           EffectiveOffset(offset), from_param,
                                           since, q)]
    /\ UNCHANGED <<WEBHOOK_SECRET, started, tableExists, table, lock, pc, req,
                   pending, rd, counters, tally>>

\* GET /stats (main.stats); the queries of get_stats read one state of the table.
Stats ==
    /\ started
    /\ last = NoEvent
    /\ rd = NoRead
    /\ last' = [NoEvent EXCEPT !.op = "stats", !.status = 200, !.out = get_stats(table)]
    /\ UNCHANGED <<WEBHOOK_SECRET, started, tableExists, table, lock, pc, req,
                   pending, rd, counters, tally>>

\* The counters are left alone (the steps of a specification that does not
\* follow them).
Uncounted == UNCHANGED <<counters, tally>>

\* The GET /messages requests sent: <<limit, offset, from, since, q>>.
ListQueries ==
    {<<NoParam, NoParam, NoParam, NoParam, NoParam>>,
     <<QInt(1), QInt(0), NoParam, NoParam, NoParam>>,
     <<QInt(1), QInt(1), NoParam, NoParam, NoParam>>,
     <<QInt(100), NoParam, NoParam, NoParam, NoParam>>,
     <<QInt(0), NoParam, NoParam, NoParam, NoParam>>,
     <<QInt(101), NoParam, NoParam, NoParam, NoParam>>,
     <<NoParam, QInt(0 - 1), NoParam, NoParam, NoParam>>,
     <<NoParam, NoParam, Param(Plus1), NoParam, NoParam>>,
     <<NoParam, NoParam, Param(<<>>), NoParam, NoParam>>,
     <<NoParam, NoParam, NoParam, Param(Ts10), NoParam>>,
     <<NoParam, NoParam, NoParam, NoParam, Param(<<"H">>)>>,
     <<NoParam, NoParam, NoParam, NoParam, Param(<<"_">>)>>}

\* The GET /messages requests sent while the webhook is under test.
PageQueries ==
    {<<NoParam, NoParam, NoParam, NoParam, NoParam>>,
     <<QInt(1), QInt(1), NoParam, NoParam, NoParam>>,
     <<QInt(0), NoParam, NoParam, NoParam, NoParam>>,
     <<NoParam, NoParam, NoParam, NoParam, Param(<<"H">>)>>}

\* The requests sent: every body under its valid signature, and some bodies
\* under each signature that is not valid for them.
BadSignatures ==
    {NoHeader, Header(<<>>), Header(<<"b", "a", "d">>), Header(<<"U+00E9">>),
     ValidSignature(BodyV1Spaced), Header(HexDigest("othersecret", BodyV1))}

Requests ==
    {<<b, ValidSignature(b)>> : b \in Bodies}
        \cup ({BodyV1, BodyMalformed} \X BadSignatures)

Next ==
    \/ Lifespan
    \/ InitDb
    \/ \E w \in Workers : \E r \in Requests : WebhookReceive(w, r[1], r[2]) /\ Uncounted
    \/ \E w \in Workers : InsertExecute(w) /\ Uncounted
    \/ \E w \in Workers : InsertCommit(w) /\ Uncounted
    \/ \E x \in PageQueries : ListMessages(x[1], x[2], x[3], x[4], x[5])
    \/ Stats
    \/ SendResponse

Spec == Init /\ [][Next]_vars

-----------------------------------------------------------------------------
(* The read endpoints on every table the inserts build. The inserts run one *)
(* at a time here: the write lock serialises them, so the tables are those   *)
(* of Spec.                                                                  *)

QueryBodies == {BodyV1, BodyV1Other, BodyEmptyTs, BodyNullId}

NextQueries ==
    \/ Lifespan
    \/ \E b \in QueryBodies : WebhookReceive("w1", b, ValidSignature(b)) /\ Uncounted
    \/ InsertExecute("w1") /\ Uncounted
    \/ InsertCommit("w1") /\ Uncounted
    \/ \E x \in ListQueries : ListMessages(x[1], x[2], x[3], x[4], x[5])
    \/ Stats
    \/ SendResponse

SpecQueries == Init /\ [][NextQueries]_vars

-----------------------------------------------------------------------------
(* get_stats and get_messages query by query. Each cursor.execute of a      *)
(* SELECT reads the rows committed at that moment (the connection holds no  *)
(* transaction open between two SELECTs), and the endpoints run in a thread *)
(* of their own, so inserts commit between the queries of one call.          *)

\* get_stats: SELECT COUNT(*)
StatsTotal ==
    /\ started
    /\ last = NoEvent
    /\ rd = NoRead
    /\ rd' = [NoRead EXCEPT !.op = "stats", !.step = 1, !.total = TotalQuery(table)]
    /\ UNCHANGED <<WEBHOOK_SECRET, started, tableExists, table, lock, pc, req,
                   pending, last, counters, tally>>

\* get_stats: the GROUP BY query and senders_count
StatsBySender ==
    /\ last = NoEvent
    /\ rd.op = "stats"
    /\ rd.step = 1
    /\ rd' = [rd EXCEPT !.step = 2, !.senders_count = BySenderQuery(table)]
    /\ UNCHANGED <<WEBHOOK_SECRET, started, tableExists, table, lock, pc, req,
                   pending, last, counters, tally>>

\* get_stats: SELECT COUNT(DISTINCT from_msisdn)
StatsUniqueSenders ==
    /\ last = NoEvent
    /\ rd.op = "stats"
    /\ rd.step = 2
    /\ rd' = [rd EXCEPT !.step = 3, !.unique_senders = UniqueSendersQuery(table)]
    /\ UNCHANGED <<WEBHOOK_SECRET, started, tableExists, table, lock, pc, req,
                   pending, last, counters, tally>>

\* get_stats: SELECT MIN(ts)
StatsFirstTs ==
    /\ last = NoEvent
    /\ rd.op = "stats"
    /\ rd.step = 3
    /\ rd' = [rd EXCEPT !.step = 4, !.first_ts = FirstTsQuery(table)]
    /\ UNCHANGED <<WEBHOOK_SECRET, started, tableExists, table, lock, pc, req,
                   pending, last, counters, tally>>

\* get_stats: SELECT MAX(ts) and the return; main.stats answers 200.
StatsLastTs ==
    /\ last = NoEvent
    /\ rd.op = "stats"
    /\ rd.step = 4
    /\ last' = [NoEvent EXCEPT
                   !.op = "stats", !.status = 200,
                   !.out = StatsResult(rd.total, rd.senders_count, rd.unique_senders,
                                       rd.first_ts, LastTsQuery(table))]
    /\ rd' = NoRead
    /\ UNCHANGED <<WEBHOOK_SECRET, started, tableExists, table, lock, pc, req,
                   pending, counters, tally>>

\* get_messages: the count query, for parameters that passed the validation.
MessagesCount(limit, offset, from_param, since, q) ==
    /\ started
    /\ last = NoEvent
    /\ rd = NoRead
    /\ LimitOk(limit)
    /\ OffsetOk(offset)
    /\ rd' = [NoRead EXCEPT !.op = "messages", !.step = 1,
                            !.args = <<limit, offset, from_param, since, q>>,
                            !.total = CountQuery(table, from_param, since, q)]
    /\ UNCHANGED <<WEBHOOK_SECRET, started, tableExists, table, lock, pc, req,
                   pending, last, counters, tally>>

\* get_messages: the page query and the return; main.list_messages answers 200.
MessagesPage ==
    /\ last = NoEvent
    /\ rd.op = "messages"
    /\ LET limit == EffectiveLimit(rd.args[1])
           offset == EffectiveOffset(rd.args[2])
           from_param == rd.args[3]
           since == rd.args[4]
           q == rd.args[5]
       IN  \E p \in SortedOrders(SelectSeq2(table, from_param, since, q)) :
              last' = [NoEvent EXCEPT
                          !.op = "messages", !.status = 200, !.args = rd.args,
                          !.out = MessagesResult(
                                      PageQuery(table, p, limit, offset, from_param,
                                                since, q),
                                      rd.total, limit, offset)]
    /\ rd' = NoRead
    /\ UNCHANGED <<WEBHOOK_SECRET, started, tableExists, table, lock, pc, req,
                   pending, counters, tally>>

\* The messages sent while a read is in progress, and the pages asked for.
ReadBodies == {BodyV1, BodyEmptyTs}
ReadQueries ==
    {<<NoParam, NoParam, NoParam, NoParam, NoParam>>,
     <<QInt(1), QInt(1), NoParam, NoParam, NoParam>>,
     <<NoParam, NoParam, Param(Plus1), NoParam, NoParam>>}

NextReads ==
    \/ Lifespan
    \/ \E w \in Workers : \E b \in ReadBodies :
          WebhookReceive(w, b, ValidSignature(b)) /\ Uncounted
    \/ \E w \in Workers : InsertExecute(w) /\ Uncounted
    \/ \E w \in Workers : InsertCommit(w) /\ Uncounted
    \/ SendResponse
    \/ StatsTotal
    \/ StatsBySender
    \/ StatsUniqueSenders
    \/ StatsFirstTs
    \/ StatsLastTs
    \/ \E x \in ReadQueries : MessagesCount(x[1], x[2], x[3], x[4], x[5])
    \/ MessagesPage

SpecReads == Init /\ [][NextReads]_vars

-----------------------------------------------------------------------------
(* Storage failures: a sqlite3 call of insert_message, get_messages or      *)
(* get_stats raises sqlite3.OperationalError.                                *)

\* get_db_context closes the connection without a commit: the row written by
\* the INSERT is rolled back.
CloseWithoutCommit(rows, row) == rows

\* main.py lines 167-169 and 188-190: except Exception is 500.
ReadExceptStatus(exc) == 500

\* insert_message: connect, cursor.execute or conn.commit raises; the except
\* Exception of insert_message re-raises, main.webhook lines 131-133 answer.
InsertFails(w) ==
    /\ last = NoEvent
    /\ pc[w] \in {"insert", "commit"}
    /\ table' = CloseWithoutCommit(table, pending[w])
    /\ pending' = [pending EXCEPT ![w] = NoRow]
    /\ lock' = IF lock = w THEN NoWorker ELSE lock
    /\ RespondRaise(w, req[w], ValidSignature(req[w]), StorageError)
    /\ UNCHANGED <<WEBHOOK_SECRET, started, tableExists, rd>>

\* get_messages raises; main.list_messages answers.
ListMessagesFails(limit, offset, from_param, since, q) ==
    /\ started
    /\ last = NoEvent
    /\ rd = NoRead
    /\ LimitOk(limit)
    /\ OffsetOk(offset)
    /\ last' = [NoEvent EXCEPT !.op = "messages", !.exc = StorageError,
                               !.status = ReadExceptStatus(StorageError),
                               !.args = <<limit, offset, from_param, since, q>>]
    /\ UNCHANGED <<WEBHOOK_SECRET, started, tableExists, table, lock, pc, req,
                   pending, rd, counters, tally>>

\* get_stats raises; main.stats answers.
StatsFails ==
    /\ started
    /\ last = NoEvent
    /\ rd = NoRead
    /\ last' = [NoEvent EXCEPT !.op = "stats", !.exc = StorageError,
                               !.status = ReadExceptStatus(StorageError)]
    /\ UNCHANGED <<WEBHOOK_SECRET, started, tableExists, table, lock, pc, req,
                   pending, rd, counters, tally>>

FaultBodies == {BodyV1, BodyV1Other, BodyEmptyTs, BodyNullFrom, BodyMalformed}

NextFaults ==
    \/ Lifespan
    \/ \E w \in Workers : \E b \in FaultBodies :
          WebhookReceive(w, b, ValidSignature(b)) /\ Uncounted
    \/ \E w \in Workers : InsertExecute(w) /\ Uncounted
    \/ \E w \in Workers : InsertCommit(w) /\ Uncounted
    \/ \E w \in Workers : InsertFails(w) /\ Uncounted
    \/ \E x \in PageQueries : ListMessages(x[1], x[2], x[3], x[4], x[5])
    \/ \E x \in PageQueries : ListMessagesFails(x[1], x[2], x[3], x[4], x[5])
    \/ Stats
    \/ StatsFails
    \/ SendResponse

SpecFaults == Init /\ [][NextFaults]_vars

-----------------------------------------------------------------------------
(* The webhook with its counters followed *)

\* Each counter is followed up to MaxCount increments.
MaxCount == 2

\* main.py line 105: labels("invalid_signature").inc() before the 401;
\* main.py line 112: labels(result).inc() once insert_message has returned.
\* The tally notes the response the step gives.
Counted ==
    /\ counters' =
          IF last'.op = "webhook" /\ last'.auth = "false"
          THEN Inc(counters, "invalid_signature")
          ELSE IF last'.op = "webhook" /\ last'.result # "none"
               THEN Inc(counters, last'.result)
               ELSE counters
    /\ tally' =
          IF last'.op = "webhook" /\ last'.status = 401
          THEN [tally EXCEPT !.unauthorized = @ + 1]
          ELSE IF /\ last'.op = "webhook"
                  /\ last'.status = 200
                  /\ CountId(table, Bind(JsonLoads(last'.body).doc.fields["message_id"])) >= 1
               THEN [tally EXCEPT !.ok_stored = @ + 1]
               ELSE tally
    /\ \A l \in Labels : counters'[l] <= MaxCount
    /\ tally'.unauthorized <= MaxCount
    /\ tally'.ok_stored <= MaxCount

MetricRequests ==
    {<<b, ValidSignature(b)>> : b \in {BodyV1, BodyV1Other, BodyEmptyTs, BodyNullFrom}}
        \cup {<<BodyV1, NoHeader>>, <<BodyV1, Header(<<"b", "a", "d">>)>>}

NextMetrics ==
    \/ Lifespan
    \/ \E w \in Workers : \E r \in MetricRequests : WebhookReceive(w, r[1], r[2]) /\ Counted
    \/ \E w \in Workers : InsertExecute(w) /\ Counted
    \/ \E w \in Workers : InsertCommit(w) /\ Counted
    \/ SendResponse

SpecMetrics == Init /\ [][NextMetrics]_vars

-----------------------------------------------------------------------------
(* Properties *)

SecretSet == WEBHOOK_SECRET # ""
Parseable(body) == JsonLoads(body).ok
DocOf(body) == JsonLoads(body).doc
\* The header is the hex HMAC-SHA256 of the raw body under the secret.
SignatureMatches(body, sig) == sig = Header(HexDigest(WEBHOOK_SECRET, body))
\* The message_id column a body's document is stored under.
IdOf(body) == Bind(DocOf(body).fields["message_id"])
\* The document gives a string for message_id, from, to and ts.
IsMessage(body) ==
    /\ Parseable(body)
    /\ ~InsertParamsRaise(DocOf(body))
    /\ \A k \in {"message_id", "from", "to", "ts"} : DocOf(body).fields[k].kind = "str"
\* The step returns from insert_message for the body of last'.
InsertReturns == last'.op = "webhook" /\ last'.result # "none"

\* C1: whenever insert_message returns for a message, it returns "created" if
\* no row with the message's id was committed before, and that row is then the
\* only one with the id; it returns "duplicate" if such a row was committed,
\* and the table is unchanged. So of the calls racing for one id exactly one
\* returns "created" and one row with the id is stored.
C1_ExactlyOneCreated ==
    [][(InsertReturns /\ IsMessage(last'.body)) =>
          IF CountId(table, IdOf(last'.body)) = 0
          THEN /\ last'.result = "created"
               /\ CountId(table', IdOf(last'.body)) = 1
               /\ Len(table') = Len(table) + 1
          ELSE /\ last'.result = "duplicate"
               /\ table' = table
               /\ CountId(table', IdOf(last'.body)) = 1]_vars

\* Two inserts of one id are in flight on a store that does not hold the id:
\* one has run its INSERT and not committed, the other has not run it yet.
C1_Witness ==
    \E w1, w2 \in Workers :
        /\ w1 # w2
        /\ pc[w1] = "commit"
        /\ pc[w2] = "insert"
        /\ IsMessage(req[w1])
        /\ IdOf(req[w1]) = IdOf(req[w2])
        /\ CountId(table, IdOf(req[w1])) = 0

\* C2: an insert whose message_id (a string) is already stored returns
\* "duplicate" and leaves every row as it was, created_at included, whatever
\* the other values it carries; an insert returns "created" only for an id not
\* stored before; the id keeps one row.
C2_FirstWriteWins ==
    [][(InsertReturns /\ IdOf(last'.body) # SqlNull) =>
          /\ CountId(table, IdOf(last'.body)) >= 1 =>
                /\ last'.result = "duplicate"
                /\ table' = table
          /\ last'.result = "created" => CountId(table, IdOf(last'.body)) = 0
          /\ CountId(table', IdOf(last'.body)) <= 1]_vars

\* m1 is stored with from +1, and the insert of m1 with from +2 and another
\* ts has just returned "duplicate".
C2_Witness ==
    /\ last.op = "webhook"
    /\ last.body = BodyV1Other
    /\ last.result = "duplicate"
    /\ \E i \in 1..Len(table) :
          /\ table[i].message_id = SqlText(M1)
          /\ table[i].from_msisdn = SqlText(Plus1)
          /\ table[i].ts = SqlText(Ts10)

\* C3: with the secret set, a request whose signature header is missing, empty
\* or not the digest of the raw body is answered 401 and the table is unchanged.
C3_BadSignatureIs401 ==
    [][(last'.op = "webhook" /\ SecretSet /\ ~SignatureMatches(last'.body, last'.sig)) =>
          /\ last'.status = 401
          /\ table' = table]_vars

\* C4: a request with a valid signature and a parseable body that violates the
\* Message schema is answered 400 and the table is unchanged.
C4_SchemaViolationIs400 ==
    [][(/\ last'.op = "webhook"
        /\ SecretSet
        /\ SignatureMatches(last'.body, last'.sig)
        /\ Parseable(last'.body)
        /\ ~WebhookMessage(DocOf(last'.body))) =>
          /\ last'.status = 400
          /\ table' = table]_vars

\* C5: with the secret set, a request with a valid signature and a schema-valid
\* message is answered 200, with outcome created or duplicate.
C5_ValidMessageIs200 ==
    (/\ last.op = "webhook"
     /\ SecretSet
     /\ SignatureMatches(last.body, last.sig)
     /\ Parseable(last.body)
     /\ WebhookMessage(DocOf(last.body))) =>
        /\ last.status = 200
        /\ last.result \in {"created", "duplicate"}

\* A schema-valid message whose id was already stored has just been answered
\* 200 with outcome duplicate.
C5_Witness ==
    /\ last.op = "webhook"
    /\ Parseable(last.body)
    /\ WebhookMessage(DocOf(last.body))
    /\ last.result = "duplicate"
    /\ last.status = 200

\* C6: when a request is answered 200, the table holds exactly one row with the
\* message_id of its body.
C6_OkMeansRecorded ==
    (last.op = "webhook" /\ last.status = 200) =>
        CountId(table, IdOf(last.body)) = 1

\* C7: insert_message returns "duplicate" exactly when a row with the same
\* message_id was already stored; a violation of another constraint is an
\* error, answered 500.
C7_DuplicateIffStored ==
    [][InsertReturns =>
          /\ last'.result = "duplicate" <=> CountId(table, IdOf(last'.body)) >= 1
          /\ last'.status = 200]_vars

\* The status the first failing check of the order secret, signature, JSON,
\* schema gives.
FirstFailingCheck(body, sig) ==
    CASE ~SecretSet -> 503
      [] ~SignatureMatches(body, sig) -> 401
      [] ~Parseable(body) -> 400
      [] ~WebhookMessage(DocOf(body)) -> 400
      [] OTHER -> 200

\* C8: the first failing check decides the response, and the insert is
\* attempted only for a request that passed all four checks.
C8_ChecksInOrder ==
    /\ last.op = "webhook" => last.status = FirstFailingCheck(last.body, last.sig)
    /\ \A w \in Workers :
          pc[w] \in {"insert", "commit"} =>
              FirstFailingCheck(req[w], ValidSignature(req[w])) = 200

\* C9: every committed row stays, at its place and with all its columns, in
\* every step of every operation.
C9_RowsImmutable ==
    [][/\ Len(table') >= Len(table)
       /\ \A i \in 1..Len(table) : table'[i] = table[i]]_vars

\* init_db has just run on a store that holds rows.
C9_Witness ==
    /\ last.op = "init_db"
    /\ Len(table) >= 1

\* C10: the signature check of a request is true exactly when the secret is
\* set and the header is the digest of the raw body, false otherwise, and it
\* never raises.
C10_SignatureCheckTotal ==
    last.op = "webhook" =>
        IF SecretSet /\ SignatureMatches(last.body, last.sig)
        THEN last.auth = "true"
        ELSE last.auth \in {"false", "unset"}

\* C11: every result of get_stats is consistent in itself, also when inserts
\* commit between its queries: with senders_count > 0, messages_per_sender
\* times senders_count is total_messages; otherwise messages_per_sender and
\* total_messages are both 0.
C11_StatsConsistent ==
    (last.op = "stats" /\ last.status = 200) =>
        LET o == last.out
        IN  IF o.senders_count > 0
            THEN o.messages_per_sender.num * o.senders_count
                    = o.total_messages * o.messages_per_sender.den
            ELSE o.messages_per_sender.num = 0 /\ o.total_messages = 0

\* C12: on a table that does not change during the call, get_stats gives null
\* for first_message_ts and last_message_ts exactly when the table is empty;
\* on a table with rows they are the smallest and the largest stored ts, the
\* empty string included.
C12_FirstLastTs ==
    (last.op = "stats" /\ last.status = 200) =>
        IF table = <<>>
        THEN /\ last.out.first_message_ts = SqlNull
             /\ last.out.last_message_ts = SqlNull
        ELSE /\ last.out.first_message_ts = MinTs(table)
             /\ last.out.last_message_ts = MaxTs(table)

\* A filter is supplied when the caller passed it, as any string.
Supplied(p) == p.kind = "str"
\* text contains q as a contiguous run of the same characters.
Contains(text, q) ==
    \E k \in 1..(Len(text) + 1) :
        /\ k + Len(q) - 1 <= Len(text)
        /\ SubSeq(text, k, k + Len(q) - 1) = q
\* The row satisfies every supplied filter.
Satisfies(row, from_param, since, q) ==
    /\ Supplied(from_param) => row.from_msisdn = SqlText(from_param.s)
    /\ Supplied(since) => /\ row.ts # SqlNull
                          /\ ~LexLess(row.ts.s, since.s)
    /\ Supplied(q) => /\ row.text # SqlNull
                      /\ Contains(row.text.s, q.s)

\* C13: on a table that does not change during the call, get_messages gives as
\* total the number of rows that satisfy every supplied filter (from equal,
\* ts >= since, text containing q), and as data the positions offset ..
\* offset+limit-1 of those rows in the order (ts, message_id); a filter passed
\* as the empty string is supplied.
C13_TotalAndPage ==
    (last.op = "messages" /\ last.status = 200) =>
        LET idx == {i \in 1..Len(table) :
                        Satisfies(table[i], last.args[3], last.args[4], last.args[5])}
            n == Cardinality(idx)
            limit == last.out.limit
            offset == last.out.offset
            m == IF offset >= n THEN 0 ELSE Min(limit, n - offset)
        IN  /\ last.out.total = n
            /\ \E f \in [1..n -> idx] :
                  /\ \A i, j \in 1..n : i < j =>
                        f[i] # f[j] /\ OrderLeq(table[f[i]], table[f[j]])
                  /\ last.out.data = [k \in 1..m |-> Item(table[f[offset + k]])]

\* The page sizes walked through.
PageLimits == {1, 2, 100}

\* The walks get_messages(limit, offset), get_messages(limit, offset + limit),
\* ... up to the first empty page, on the same rows: for each walk the items
\* collected in order and the totals its pages reported. Each page query sorts
\* on its own, in one of the orders the ORDER BY allows.
RECURSIVE Pages(_, _, _, _, _, _, _)
Pages(rows, orders, limit, offset, from_param, since, q) ==
    LET page == {get_messages(rows, p, limit, offset, from_param, since, q) :
                    p \in orders}
    IN  UNION {IF r.data = <<>>
               THEN {[items |-> <<>>, totals |-> {r.total}]}
               ELSE {[items |-> r.data \o c.items, totals |-> {r.total} \cup c.totals] :
                        c \in Pages(rows, orders, limit, offset + limit, from_param,
                                    since, q)} :
               r \in page}

\* C14: on a table that does not change, for every page size and the filters of
\* the request, the pages at offsets 0, limit, 2*limit, ... up to the first
\* empty one give, put together, every matching row once in the order (ts,
\* message_id), and every page reports as total the number of rows collected.
C14_PagesReconstruct ==
    (last.op = "messages" /\ last.status = 200) =>
        LET from_param == last.args[3]
            since == last.args[4]
            q == last.args[5]
            matching == SelectSeq2(table, from_param, since, q)
            orders == SortedOrders(matching)
            sorted == {[i \in 1..Len(matching) |-> Item(matching[p[i]])] : p \in orders}
        IN  \A limit \in PageLimits :
                \A c \in Pages(table, orders, limit, 0, from_param, since, q) :
                    /\ c.totals = {Len(c.items)}
                    /\ Len(c.items) = Len(matching)
                    /\ c.items \in sorted

\* The second page of size 1 has just been served from a table of two rows
\* whose order by (ts, message_id) is not the order they were inserted in.
C14_Witness ==
    /\ last.op = "messages"
    /\ last.status = 200
    /\ last.args[1] = QInt(1)
    /\ last.args[2] = QInt(1)
    /\ Len(table) = 2
    /\ SqlLess(table[2].ts, table[1].ts)
    /\ last.out.total = 2
    /\ last.out.data = <<Item(table[1])>>

\* C15: for a non-empty q, with no other filter and a page that holds the whole
\* result, a row is returned exactly when its text is not null and contains q
\* character for character: same letter case, no character of q a wildcard.
C15_LiteralSubstring ==
    (/\ last.op = "messages"
     /\ last.status = 200
     /\ Truthy(last.args[5])
     /\ last.args[3] = NoParam
     /\ last.args[4] = NoParam
     /\ last.out.offset = 0
     /\ Len(table) <= last.out.limit) =>
        \A i \in 1..Len(table) :
            (\E k \in 1..Len(last.out.data) : last.out.data[k] = Item(table[i]))
                <=> /\ table[i].text # SqlNull
                    /\ Contains(table[i].text.s, last.args[5].s)

\* C16: GET /messages clamps limit into [1,100]: below 1 is served as 1, above
\* 100 as 100, absent as 50, each with status 200; no response carries more
\* than 100 items or more than the effective limit; offset defaults to 0.
C16_LimitClamped ==
    (last.op = "messages" /\ OffsetOk(last.args[2])) =>
        LET limit == last.args[1]
            effective == CASE limit = NoParam -> 50
                           [] limit # NoParam /\ limit.n < 1 -> 1
                           [] limit # NoParam /\ limit.n > 100 -> 100
                           [] OTHER -> limit.n
        IN  /\ last.status = 200
            /\ last.out.limit = effective
            /\ Len(last.out.data) <= effective
            /\ Len(last.out.data) <= 100
            /\ last.args[2] = NoParam => last.out.offset = 0

\* C16, amended: GET /messages validates limit and offset. A limit below 1 or
\* above 100, or an offset below 0, is answered 422 with no data; otherwise the
\* answer is 200, served with the limit given (50 when absent) and the offset
\* given (0 when absent), and it carries no more items than that limit, so
\* never more than 100.
C16_LimitValidated ==
    last.op = "messages" =>
        LET limit == last.args[1]
            offset == last.args[2]
            limitBad == IF limit = NoParam THEN FALSE ELSE limit.n < 1 \/ limit.n > 100
            offsetBad == IF offset = NoParam THEN FALSE ELSE offset.n < 0
        IN  IF limitBad \/ offsetBad
            THEN last.status = 422 /\ last.out = NoOut
            ELSE /\ last.status = 200
                 /\ last.out.limit = (IF limit = NoParam THEN 50 ELSE limit.n)
                 /\ last.out.offset = (IF offset = NoParam THEN 0 ELSE offset.n)
                 /\ Len(last.out.data) <= last.out.limit
                 /\ Len(last.out.data) <= 100

\* A request with limit 101 has just been answered 422, on a table with rows.
C16_Witness ==
    /\ last.op = "messages"
    /\ last.args[1] = QInt(101)
    /\ last.status = 422
    /\ Len(table) >= 1

\* C17: a storage failure is surfaced. A failure during the insert of a
\* schema-valid message makes POST /webhook answer 500 and leaves the table
\* unchanged; a failure during get_messages or get_stats makes GET /messages
\* or GET /stats answer 500 with no data and no total; none is answered 200
\* or 400.
C17_StorageFailureIs500 ==
    [][(/\ last'.exc = StorageError
        /\ last'.op = "webhook" => WebhookMessage(DocOf(last'.body))) =>
          /\ last'.status = 500
          /\ last'.out = NoOut
          /\ table' = table]_vars

\* The insert of a schema-valid message has just failed on a table with rows,
\* while the other request holds a row written and not yet committed.
C17_Witness ==
    /\ last.op = "webhook"
    /\ last.exc = StorageError
    /\ WebhookMessage(DocOf(last.body))
    /\ Len(table) >= 1
    /\ \E w \in Workers : pc[w] = "commit"

\* C18: init_db is idempotent: run on a store whose table exists, at any point
\* between the steps of the other operations, it succeeds and leaves every
\* stored row as it was, so any number of runs gives the store of the one run
\* at the start.
C18_InitDbIdempotent ==
    [][(last'.op = "init_db" /\ tableExists) =>
          /\ last'.result = "ok"
          /\ table' = table
          /\ tableExists']_vars

\* init_db has just run on a store that holds m1, while a request holds a row
\* written and not yet committed.
C18_Witness ==
    /\ last.op = "init_db"
    /\ \E i \in 1..Len(table) : table[i].message_id = SqlText(M1)
    /\ \E w \in Workers : pc[w] = "commit"

\* C19: the total and the data of one get_messages call agree under every
\* interleaving with inserts: len(data) = min(limit, max(0, total - offset)).
C19_TotalMatchesData ==
    (last.op = "messages" /\ last.status = 200) =>
        LET rest == last.out.total - last.out.offset
        IN  Len(last.out.data) = Min(last.out.limit, IF rest > 0 THEN rest ELSE 0)

\* C20: from an empty table and zero counters, whenever no webhook request is
\* in flight, the "created" counter is the number of rows of the table, the
\* "duplicate" counter is the number of 200 responses given for a message_id
\* that was already stored, and the "invalid_signature" counter is the number
\* of 401 responses.
C20_CountersAgree ==
    (\A w \in Workers : pc[w] = "idle") =>
        /\ counters["created"] = Len(table)
        /\ counters["duplicate"] = tally.ok_stored
        /\ counters["invalid_signature"] = tally.unauthorized

====
